---------------------------- MODULE Spec2Model ----------------------------
(***************************************************************************)
(* CollabordinatorService: a BehaviorSubject<string[]> that mirrors the     *)
(* shared list of submitted item identifiers over a WebSocket channel.      *)
(*                                                                          *)
(* One action per public method and per registered callback.  Every action  *)
(* is a whole event turn of the single-threaded event loop.                 *)
(***************************************************************************)
EXTENDS Naturals, Integers, Sequences, FiniteSets

\* ------------------------------------------------------------------ bounds
\* Longest attribute list of a message or of an add()/remove() call.
MaxAttr == 2
\* Number of channel objects connect() may create in one run.
MaxChannels == 2

\* The item identifiers the endpoint and the callers use.
Ids == {"a", "b"}

\* All attribute lists (identifiers may repeat).
Attributes == UNION {[1..n -> Ids] : n \in 0..MaxAttr}

\* The key add/remove/clear put on every outbound message.
VITRIVR == "vitrivr"
Keys == {VITRIVR, "other"}
\* "PING" stands for any action string that is none of ADD, REMOVE, CLEAR.
Actions == {"ADD", "REMOVE", "CLEAR", "PING"}

\* CollabordinatorMessage {action, key, attribute}
Message(a, k, attr) == [action |-> a, key |-> k, attribute |-> attr]
Messages == {Message(a, k, attr) : a \in Actions, k \in Keys, attr \in Attributes}
NoMsg == Message("", "", <<>>)

\* Values of "vbs.collabordinator" a configuration snapshot may carry.
NullAddr == "null"
Addrs == {"ws://host/collab", "ws://other/collab"}
\* this._config before the first accepted snapshot (undefined).
NoConfig == "undefined"
\* this._webSocket before the first connect() (undefined); channels are 1..MaxChannels.
NoSocket == 0
Channels == 1..MaxChannels

VARIABLES
    _config,     \* address held by the stored Config, or NoConfig
    _webSocket,  \* the current channel object, or NoSocket
    value,       \* the BehaviorSubject's current value (getValue())
    chan,        \* per channel object: what its subscription can still deliver
    ops,         \* the calls the last event turn made, in order
    last,        \* the last event turn: operation, arguments, return value
    before,      \* getValue() when the last event turn began
    snapshot,    \* the array object an observer of the subject holds
    wire,        \* messages the endpoint received on the current channel, to echo
    twin         \* a second run: its published set, the key of its last message

vars == <<_config, _webSocket, value, chan, ops, last, before, snapshot, wire, twin>>

\* ------------------------------------------------------- recorded effects
\* One call made by a handler: on a channel (complete, next = send, webSocket,
\* subscribe), on the subject itself (publish = this.next(v)) or console.log.
Call(name, ch, msg, arg) == [call |-> name, ch |-> ch, msg |-> msg, arg |-> arg]
Publish(v) == Call("publish", NoSocket, NoMsg, v)
Send(ch, msg) == Call("send", ch, msg, <<>>)
Complete(ch) == Call("complete", ch, NoMsg, <<>>)
Open(ch, url) == Call("webSocket", ch, NoMsg, <<url>>)
Subscribe(ch) == Call("subscribe", ch, NoMsg, <<>>)
Log(text) == Call("log", NoSocket, NoMsg, <<text>>)

Turn(op, ch, id, msg, ret) == [op |-> op, ch |-> ch, id |-> id, msg |-> msg, ret |-> ret]

\* ------------------------------------------------------- array primitives
\* Array.prototype.indexOf: 0-based index of the first occurrence, or -1.
RECURSIVE indexOfFrom(_, _, _)
indexOfFrom(s, v, i) ==
    IF i > Len(s) THEN -1
    ELSE IF s[i] = v THEN i - 1
    ELSE indexOfFrom(s, v, i + 1)

indexOf(s, v) == indexOfFrom(s, v, 1)

\* Array.prototype.push of one element.
push(s, v) == Append(s, v)

\* Array.prototype.splice(index, 1): removes the element at 0-based index.
splice(s, index) == [i \in 1..(Len(s) - 1) |-> IF i <= index THEN s[i] ELSE s[i + 1]]

\* ---------------------------------------------------------------- observers
\* An observer holds the array object the subject handed it: its contents as
\* they are now, and whether it still is the object getValue() returns.
Held(array, isValue) == [array |-> array, isValue |-> isValue]

\* this.next(v) with a new array object v (a literal, or a slice() copy): the
\* array the observer holds is no longer the subject's value and is not written.
Fresh(snap) == Held(snap.array, FALSE)

\* The observer's array after a turn that made the calls `calls`; every
\* this.next(...) outside synchronize passes the literal [].
afterCalls(snap, calls) ==
    IF \E i \in 1..Len(calls) : calls[i].call = "publish" THEN Fresh(snap) ELSE snap

\* ------------------------------------------------------------ synchronize
\* Mutant of syncAdd: pushes every identifier, without the indexOf test.
syncAddNoTest(current, attribute) == current \o attribute

\* Mutant of syncAdd: unshift instead of push.
RECURSIVE syncAddFront(_, _)
syncAddFront(current, attribute) ==
    IF attribute = <<>> THEN current
    ELSE LET v == Head(attribute)
         IN  syncAddFront(IF indexOf(current, v) = -1 THEN <<v>> \o current ELSE current,
                          Tail(attribute))

\* case "ADD": for (let v of msg.attribute) if (current.indexOf(v) == -1) current.push(v)
RECURSIVE syncAdd(_, _)
syncAdd(current, attribute) ==
    IF attribute = <<>> THEN current
    ELSE LET v == Head(attribute)
         IN  syncAdd(IF indexOf(current, v) = -1 THEN push(current, v) ELSE current,
                     Tail(attribute))

\* Mutant of syncRemove: tests index > 0, so the first element is never removed.
RECURSIVE syncRemoveNotFirst(_, _)
syncRemoveNotFirst(current, attribute) ==
    IF attribute = <<>> THEN current
    ELSE LET v == Head(attribute)
             index == indexOf(current, v)
         IN  syncRemoveNotFirst(IF index > 0 THEN splice(current, index) ELSE current,
                                Tail(attribute))

\* case "REMOVE": msg.attribute.forEach(v => { index = current.indexOf(v);
\*                                             if (index > -1) current.splice(index, 1) })
RECURSIVE syncRemove(_, _)
syncRemove(current, attribute) ==
    IF attribute = <<>> THEN current
    ELSE LET v == Head(attribute)
             index == indexOf(current, v)
         IN  syncRemove(IF index > -1 THEN splice(current, index) ELSE current,
                        Tail(attribute))

\* Mutant of syncClear: clears only the identifiers the message names.
syncClearNamed(current, attribute) == syncRemove(current, attribute)

\* case "CLEAR": current.length = 0
syncClear(current, attribute) == <<>>

\* Mutant of synchronized: messages of another namespace are skipped.
synchronizedOwnKey(current, msg) ==
    IF msg.key # VITRIVR THEN current
    ELSE CASE msg.action = "ADD" -> syncAdd(current, msg.attribute)
           [] msg.action = "REMOVE" -> syncRemove(current, msg.attribute)
           [] msg.action = "CLEAR" -> syncClear(current, msg.attribute)
           [] OTHER -> current

\* Mutant of synchronized: a default case that empties the array.
synchronizedDefaultClear(current, msg) ==
    CASE msg.action = "ADD" -> syncAdd(current, msg.attribute)
      [] msg.action = "REMOVE" -> syncRemove(current, msg.attribute)
      [] OTHER -> <<>>

\* The array synchronize(msg) passes to this.next(): a copy of getValue(),
\* changed by the switch on msg.action (no default case).
synchronized(current, msg) ==
    CASE msg.action = "ADD" -> syncAdd(current, msg.attribute)
      [] msg.action = "REMOVE" -> syncRemove(current, msg.attribute)
      [] msg.action = "CLEAR" -> syncClear(current, msg.attribute)
      [] OTHER -> current

\* Mutant of synchronize: no slice(), the switch writes the array getValue()
\* returned and publishes that same object.
synchronizeInPlace(msg) ==
    /\ value' = synchronized(value, msg)
    /\ ops' = <<Publish(synchronized(value, msg))>>
    /\ snapshot' = IF snapshot.isValue THEN Held(synchronized(value, msg), TRUE)
                   ELSE snapshot
    /\ UNCHANGED <<_config, _webSocket, chan>>

\* private synchronize(msg): let current = this.getValue().slice() is a new
\* array; the switch writes it and this.next(current) publishes it.
synchronize(msg) ==
    /\ value' = synchronized(value, msg)
    /\ ops' = <<Publish(synchronized(value, msg))>>
    /\ snapshot' = Fresh(snapshot)
    /\ UNCHANGED <<_config, _webSocket, chan>>

\* ---------------------------------------------------------------- channels
\* A channel object's subscription is "live" from subscribe(); complete() on it
\* starts closing the socket ("closing") while the three callbacks stay
\* registered; once the error or the completion callback has run the
\* subscription is "stopped" and delivers nothing more.
ChanStates == {"unused", "live", "closing", "stopped"}
Delivering(ch) == chan[ch] \in {"live", "closing"}

\* this._webSocket.complete() on channel object ch.
completed(chn, ch) == [chn EXCEPT ![ch] = IF @ = "live" THEN "closing" ELSE @]

\* ------------------------------------------------------------------ connect
\* Mutant of connectCall: no test of this._config.
connectNoConfigTest(cfg, ws, val, chn) ==
    LET had == ws # NoSocket
        new == IF ws < MaxChannels THEN ws + 1 ELSE ws
        chn1 == IF had THEN completed(chn, ws) ELSE chn
    IN  [ret |-> "true",
         ws  |-> new,
         val |-> IF had THEN <<>> ELSE val,
         chn |-> [chn1 EXCEPT ![new] = "live"],
         ops |-> (IF had THEN <<Complete(ws), Publish(<<>>)>> ELSE <<>>)
                 \o <<Open(new, cfg), Subscribe(new)>>]

\* Mutant of connectCall: the reset is published after the new channel is
\* opened and subscribed.
connectResetLast(cfg, ws, val, chn) ==
    IF cfg = NoConfig
    THEN [ret |-> "false", ws |-> ws, val |-> val, chn |-> chn, ops |-> <<>>]
    ELSE LET had == ws # NoSocket
             new == ws + 1
             chn1 == IF had THEN completed(chn, ws) ELSE chn
         IN  [ret |-> "true",
              ws  |-> new,
              val |-> IF had THEN <<>> ELSE val,
              chn |-> [chn1 EXCEPT ![new] = "live"],
              ops |-> <<Open(new, cfg), Subscribe(new)>>
                      \o (IF had THEN <<Complete(ws), Publish(<<>>)>> ELSE <<>>)]

\* public connect(): boolean, as a function of the fields it reads.
connectCall(cfg, ws, val, chn) ==
    IF cfg = NoConfig
    THEN [ret |-> "false", ws |-> ws, val |-> val, chn |-> chn, ops |-> <<>>]
    ELSE LET had == ws # NoSocket
             new == ws + 1
             chn1 == IF had THEN completed(chn, ws) ELSE chn
         IN  [ret |-> "true",
              ws  |-> new,
              val |-> IF had THEN <<>> ELSE val,
              chn |-> [chn1 EXCEPT ![new] = "live"],
              ops |-> (IF had THEN <<Complete(ws), Publish(<<>>)>> ELSE <<>>)
                      \o <<Open(new, cfg), Subscribe(new)>>]

\* connect() can create a channel object only while the model has one left.
CanConnect(cfg) == cfg = NoConfig \/ _webSocket < MaxChannels

\* An external call of connect().
connect ==
    /\ CanConnect(_config)
    /\ LET r == connectCall(_config, _webSocket, value, chan)
       IN  /\ _webSocket' = r.ws
           /\ value' = r.val
           /\ chan' = r.chn
           /\ ops' = r.ops
           /\ last' = Turn("connect", NoSocket, <<>>, NoMsg, r.ret)
           /\ before' = value
           /\ snapshot' = afterCalls(snapshot, ops')
    /\ UNCHANGED _config

\* Mutant of onConfig: no filter, a snapshot without an address is stored and
\* connected to as well.
onConfigNoFilter(c) ==
    /\ CanConnect(c)
    /\ LET r == connectCall(c, _webSocket, value, chan)
       IN  /\ _config' = c
           /\ _webSocket' = r.ws
           /\ value' = r.val
           /\ chan' = r.chn
           /\ ops' = r.ops
           /\ last' = Turn("config", NoSocket, <<c>>, NoMsg, "void")
           /\ before' = value
           /\ snapshot' = afterCalls(snapshot, ops')

\* Mutant of onConfig: only the first snapshot with an address is stored
\* (first() in the pipe); later ones reconnect to the stored address.
onConfigKeepsFirst(c) ==
    IF c = NullAddr
    THEN /\ UNCHANGED <<_config, _webSocket, value, chan>>
         /\ ops' = <<>>
         /\ last' = Turn("config", NoSocket, <<c>>, NoMsg, "void")
         /\ before' = value
         /\ snapshot' = afterCalls(snapshot, ops')
    ELSE /\ CanConnect(c)
         /\ LET first == IF _config = NoConfig THEN c ELSE _config
                r == connectCall(first, _webSocket, value, chan)
            IN  /\ _config' = first
                /\ _webSocket' = r.ws
                /\ value' = r.val
                /\ chan' = r.chn
                /\ ops' = r.ops
                /\ last' = Turn("config", NoSocket, <<c>>, NoMsg, "void")
                /\ before' = value
                /\ snapshot' = afterCalls(snapshot, ops')

\* The constructor's subscription: filter(c => c.get("vbs.collabordinator") != null),
\* then this._config = c; this.connect().
onConfig(c) ==
    IF c = NullAddr
    THEN /\ UNCHANGED <<_config, _webSocket, value, chan>>
         /\ ops' = <<>>
         /\ last' = Turn("config", NoSocket, <<c>>, NoMsg, "void")
         /\ before' = value
         /\ snapshot' = afterCalls(snapshot, ops')
    ELSE /\ CanConnect(c)
         /\ LET r == connectCall(c, _webSocket, value, chan)
            IN  /\ _config' = c
                /\ _webSocket' = r.ws
                /\ value' = r.val
                /\ chan' = r.chn
                /\ ops' = r.ops
                /\ last' = Turn("config", NoSocket, <<c>>, NoMsg, "void")
                /\ before' = value
                /\ snapshot' = afterCalls(snapshot, ops')

\* ------------------------------------------------------- channel callbacks
\* v => this.synchronize(v)
onMessage(ch, msg) ==
    /\ Delivering(ch)
    /\ synchronize(msg)
    /\ last' = Turn("message", ch, <<>>, msg, "void")
    /\ before' = value

\* Mutant of onError: retries by calling connect() from the error callback.
onErrorReconnects(ch) ==
    /\ Delivering(ch)
    /\ _webSocket < MaxChannels
    /\ LET r == connectCall(_config, _webSocket, <<>>, [chan EXCEPT ![ch] = "stopped"])
       IN  /\ _webSocket' = r.ws
           /\ value' = r.val
           /\ chan' = r.chn
           /\ ops' = <<Publish(<<>>)>> \o r.ops
           /\ last' = Turn("error", ch, <<>>, NoMsg, "void")
           /\ before' = value
           /\ snapshot' = afterCalls(snapshot, ops')
    /\ UNCHANGED _config

\* Mutant of onError: logs, but does not reset the set.
onErrorNoReset(ch) ==
    /\ Delivering(ch)
    /\ chan' = [chan EXCEPT ![ch] = "stopped"]
    /\ ops' = <<Log("Error occurred while communicating with Collabordinator web service")>>
    /\ last' = Turn("error", ch, <<>>, NoMsg, "void")
    /\ before' = value
    /\ snapshot' = afterCalls(snapshot, ops')
    /\ UNCHANGED <<_config, _webSocket, value>>

\* e => { console.log(...); this.next([]) }
onError(ch) ==
    /\ Delivering(ch)
    /\ value' = <<>>
    /\ chan' = [chan EXCEPT ![ch] = "stopped"]
    /\ ops' = <<Log("Error occurred while communicating with Collabordinator web service"),
                Publish(<<>>)>>
    /\ last' = Turn("error", ch, <<>>, NoMsg, "void")
    /\ before' = value
    /\ snapshot' = afterCalls(snapshot, ops')
    /\ UNCHANGED <<_config, _webSocket>>

\* Mutant of onComplete: drops the channel object when the channel closes.
onCompleteDropsChannel(ch) ==
    /\ Delivering(ch)
    /\ value' = <<>>
    /\ chan' = [chan EXCEPT ![ch] = "stopped"]
    /\ _webSocket' = IF ch = _webSocket THEN NoSocket ELSE _webSocket
    /\ ops' = <<Log("Connection to Collabordinator web service was closed."),
                Publish(<<>>)>>
    /\ last' = Turn("complete", ch, <<>>, NoMsg, "void")
    /\ before' = value
    /\ snapshot' = afterCalls(snapshot, ops')
    /\ UNCHANGED _config

\* () => { console.log(...); this.next([]) }
onComplete(ch) ==
    /\ Delivering(ch)
    /\ value' = <<>>
    /\ chan' = [chan EXCEPT ![ch] = "stopped"]
    /\ ops' = <<Log("Connection to Collabordinator web service was closed."),
                Publish(<<>>)>>
    /\ last' = Turn("complete", ch, <<>>, NoMsg, "void")
    /\ before' = value
    /\ snapshot' = afterCalls(snapshot, ops')
    /\ UNCHANGED <<_config, _webSocket>>

\* ------------------------------------------------------------ public calls
Unavailable == Log("Collabordinator service is currently not available.")

\* Mutant of sendOrLog: no test of this._webSocket.
sendOrLogNoTest(ws, action, attribute) == <<Send(ws, Message(action, VITRIVR, attribute))>>

\* The calls add/remove/clear make: this._webSocket.next({action, key: "vitrivr",
\* attribute}) if (this._webSocket), else console.log(...).
sendOrLog(ws, action, attribute) ==
    IF ws # NoSocket THEN <<Send(ws, Message(action, VITRIVR, attribute))>>
    ELSE <<Unavailable>>

\* Mutant of add: an optimistic local update next to the send.
addOptimistic(id) ==
    /\ value' = value \o id
    /\ ops' = sendOrLog(_webSocket, "ADD", id) \o <<Publish(value \o id)>>
    /\ last' = Turn("add", NoSocket, id, NoMsg, "void")
    /\ before' = value
    /\ snapshot' = afterCalls(snapshot, ops')
    /\ UNCHANGED <<_config, _webSocket, chan>>

\* public add(...id: string[])
add(id) ==
    /\ ops' = sendOrLog(_webSocket, "ADD", id)
    /\ last' = Turn("add", NoSocket, id, NoMsg, "void")
    /\ before' = value
    /\ snapshot' = afterCalls(snapshot, ops')
    /\ UNCHANGED <<_config, _webSocket, value, chan>>

\* Mutant of remove: the message of add(), copied without changing the action.
removeSendsAdd(id) ==
    /\ ops' = sendOrLog(_webSocket, "ADD", id)
    /\ last' = Turn("remove", NoSocket, id, NoMsg, "void")
    /\ before' = value
    /\ snapshot' = afterCalls(snapshot, ops')
    /\ UNCHANGED <<_config, _webSocket, value, chan>>

\* public remove(...id: string[])
remove(id) ==
    /\ ops' = sendOrLog(_webSocket, "REMOVE", id)
    /\ last' = Turn("remove", NoSocket, id, NoMsg, "void")
    /\ before' = value
    /\ snapshot' = afterCalls(snapshot, ops')
    /\ UNCHANGED <<_config, _webSocket, value, chan>>

\* public clear()
clear ==
    /\ ops' = sendOrLog(_webSocket, "CLEAR", <<>>)
    /\ last' = Turn("clear", NoSocket, <<>>, NoMsg, "void")
    /\ before' = value
    /\ snapshot' = afterCalls(snapshot, ops')
    /\ UNCHANGED <<_config, _webSocket, value, chan>>

\* public available(): boolean  { return this._webSocket != null }
availableCall(ws) == IF ws # NoSocket THEN "true" ELSE "false"

available ==
    /\ ops' = <<>>
    /\ last' = Turn("available", NoSocket, <<>>, NoMsg, availableCall(_webSocket))
    /\ before' = value
    /\ snapshot' = afterCalls(snapshot, ops')
    /\ UNCHANGED <<_config, _webSocket, value, chan>>

\* An observer of the subject takes the current value: subscribers and
\* getValue() are handed the array object itself, not a copy.
observe ==
    /\ snapshot' = Held(value, TRUE)
    /\ ops' = <<>>
    /\ last' = Turn("observe", NoSocket, <<>>, NoMsg, "void")
    /\ before' = value
    /\ UNCHANGED <<_config, _webSocket, value, chan>>

\* ------------------------------------------------------------ specification
\* The second run is not started.
NoTwin == [value |-> <<>>, key |-> ""]

\* A turn of this run alone, with no endpoint model behind the channel (any
\* message may arrive at any time).
Idle == UNCHANGED <<wire, twin>>

\* constructor: super([]); no configuration seen, no channel.
Init ==
    /\ _config = NoConfig
    /\ _webSocket = NoSocket
    /\ value = <<>>
    /\ chan = [ch \in Channels |-> "unused"]
    /\ ops = <<>>
    /\ last = Turn("constructor", NoSocket, <<>>, NoMsg, "void")
    /\ before = <<>>
    /\ snapshot = Held(<<>>, TRUE)
    /\ wire = <<>>
    /\ twin = NoTwin

Next ==
    \/ \E c \in Addrs \cup {NullAddr} : onConfig(c) /\ Idle
    \/ connect /\ Idle
    \/ \E id \in Attributes : add(id) /\ Idle
    \/ \E id \in Attributes : remove(id) /\ Idle
    \/ clear /\ Idle
    \/ available /\ Idle
    \/ \E ch \in Channels, msg \in Messages : onMessage(ch, msg) /\ Idle
    \/ \E ch \in Channels : onError(ch) /\ Idle
    \/ \E ch \in Channels : onComplete(ch) /\ Idle

Spec == Init /\ [][Next]_vars

\* ------------------------------------------- synchronize as a pure function
\* Longest attribute list handed to synchronize in SyncSpec.
MaxSyncAttr == 3
\* A larger identifier universe: a removal can leave two identifiers behind
\* while naming an absent one.
SyncIds == {"a", "b", "c", "d"}
SyncAttributes == UNION {[1..n -> SyncIds] : n \in 0..MaxSyncAttr}
SyncMessages ==
    {Message(a, k, attr) : a \in Actions, k \in Keys, attr \in SyncAttributes}

\* The arrays synchronize can find in getValue(): no identifier twice.
ItemSets(S) ==
    {s \in UNION {[1..n -> S] : n \in 0..Cardinality(S)} :
        \A i, j \in 1..Len(s) : i # j => s[i] # s[j]}

\* Channel 1 is live, the set is any array the service can hold, and
\* available() has just returned.
SyncInit ==
    /\ _config \in Addrs
    /\ _webSocket = 1
    /\ value \in ItemSets(SyncIds)
    /\ chan = [ch \in Channels |-> IF ch = 1 THEN "live" ELSE "unused"]
    /\ ops = <<>>
    /\ last = Turn("available", NoSocket, <<>>, NoMsg, "true")
    /\ before = value
    /\ snapshot = Held(value, TRUE)
    /\ wire = <<>>
    /\ twin = NoTwin

\* The channel delivers one message to the message callback.
SyncNext ==
    /\ last.op = "available"
    /\ \E msg \in SyncMessages : onMessage(1, msg) /\ Idle

SyncSpec == SyncInit /\ [][SyncNext]_vars

\* ------------------------------------------------- the subject's observers
\* Longest attribute list of a message in ObsSpec.
MaxObsAttr == 1
ObsMessages ==
    {Message(a, k, attr) : a \in Actions, k \in Keys,
                           attr \in UNION {[1..n -> Ids] : n \in 0..MaxObsAttr}}

\* The turns that publish, and an observer that takes the value at any time.
ObsNext ==
    \/ observe /\ Idle
    \/ \E c \in Addrs \cup {NullAddr} : onConfig(c) /\ Idle
    \/ connect /\ Idle
    \/ \E ch \in Channels, msg \in ObsMessages : onMessage(ch, msg) /\ Idle
    \/ \E ch \in Channels : onError(ch) /\ Idle
    \/ \E ch \in Channels : onComplete(ch) /\ Idle

ObsSpec == Init /\ [][ObsNext]_vars

\* ------------------------------------------------- two runs, different keys
\* Both runs have connected on the first configuration snapshot.
KeyInit ==
    /\ _config \in Addrs
    /\ _webSocket = 1
    /\ value = <<>>
    /\ chan = [ch \in Channels |-> IF ch = 1 THEN "live" ELSE "unused"]
    /\ ops = <<Open(1, _config), Subscribe(1)>>
    /\ last = Turn("config", NoSocket, <<_config>>, NoMsg, "void")
    /\ before = <<>>
    /\ snapshot = Held(<<>>, TRUE)
    /\ wire = <<>>
    /\ twin = NoTwin

\* Both runs receive a message with the same action and attribute list; the
\* second run's message carries key k.
KeyNext ==
    \E msg \in Messages, k \in Keys :
        /\ onMessage(1, msg)
        /\ twin' = [value |-> synchronized(twin.value, [msg EXCEPT !.key = k]),
                    key |-> k]
        /\ UNCHANGED wire

KeySpec == KeyInit /\ [][KeyNext]_vars

\* ------------------------------------------------------ an echoing endpoint
\* Most messages the endpoint holds at once before it echoes one.
MaxWire == 2

\* The endpoint receives what a turn sent on a channel whose socket works; a
\* send on a channel that has failed or closed reaches nobody.
Received(w, calls) ==
    IF calls # <<>> /\ calls[1].call = "send" /\ chan[calls[1].ch] = "live"
    THEN Append(w, calls[1].msg)
    ELSE w

\* What is left to echo after a turn of channel ch ended that channel.
Dropped(w, ch) == IF ch = _webSocket THEN <<>> ELSE w

\* The endpoint echoes the oldest message it holds; the message callback of
\* the current channel runs.
echo ==
    /\ wire # <<>>
    /\ _webSocket # NoSocket
    /\ onMessage(_webSocket, Head(wire))
    /\ wire' = Tail(wire)
    /\ UNCHANGED twin

\* One client and an endpoint that echoes each message it receives, in order.
\* A new channel starts with nothing to echo.
EchoNext ==
    \/ \E c \in Addrs \cup {NullAddr} :
          onConfig(c) /\ wire' = (IF c = NullAddr THEN wire ELSE <<>>) /\ UNCHANGED twin
    \/ connect /\ wire' = (IF _config = NoConfig THEN wire ELSE <<>>) /\ UNCHANGED twin
    \/ \E id \in Attributes :
          Len(wire) < MaxWire /\ add(id) /\ wire' = Received(wire, ops') /\ UNCHANGED twin
    \/ \E id \in Attributes :
          Len(wire) < MaxWire /\ remove(id) /\ wire' = Received(wire, ops') /\ UNCHANGED twin
    \/ Len(wire) < MaxWire /\ clear /\ wire' = Received(wire, ops') /\ UNCHANGED twin
    \/ \E ch \in Channels : onError(ch) /\ wire' = Dropped(wire, ch) /\ UNCHANGED twin
    \/ \E ch \in Channels : onComplete(ch) /\ wire' = Dropped(wire, ch) /\ UNCHANGED twin
    \/ echo

\* Delivery is fair: a message the endpoint holds is eventually echoed.
EchoSpec == Init /\ [][EchoNext]_vars /\ WF_vars(echo)

\* ------------------------------------------------------------------ claims
Range(s) == {s[i] : i \in 1..Len(s)}
Repeats(s) == \E i, j \in 1..Len(s) : i # j /\ s[i] = s[j]

\* C1: in every reachable state the published item set holds no identifier
\* more than once.
C1_NoDuplicates == ~Repeats(value)

\* An ADD whose attribute list repeats an identifier has just been processed
\* and the set holds every identifier.
C1_Witness ==
    /\ last.op = "message"
    /\ last.msg.action = "ADD"
    /\ Repeats(last.msg.attribute)
    /\ Range(value) = Ids

PublicCalls == {"add", "remove", "clear", "available"}
Resets == {"connect", "config", "error", "complete"}

\* C2: add, remove, clear and available never change the published set,
\* with or without a channel; the set changes only in a turn that processes a
\* received message, or to empty in a connect, error or close turn.
C2_OnlySynchronizeOrReset ==
    [][/\ last'.op \in PublicCalls => value' = value
       /\ value' # value =>
            \/ last'.op = "message"
            \/ last'.op \in Resets /\ value' = <<>>]_vars

\* add(ids) was called on a live channel with identifiers the set lacks.
C2_Witness ==
    /\ last.op = "add"
    /\ _webSocket # NoSocket
    /\ chan[_webSocket] = "live"
    /\ last.id # <<>>
    /\ Range(last.id) \cap Range(value) = {}

\* The elements of s at the positions I, in increasing position.
Pick(s, I) ==
    [k \in 1..Cardinality(I) |->
        s[CHOOSE i \in I : Cardinality({j \in I : j <= i}) = k]]

\* Positions of attr holding the first occurrence of an identifier S lacks.
FirstNew(S, attr) ==
    {i \in 1..Len(attr) :
        /\ attr[i] \notin Range(S)
        /\ \A j \in 1..(i - 1) : attr[j] # attr[i]}

Processed(action) == last.op = "message" /\ last.msg.action = action

\* C3: processing an inbound ADD on set S yields S followed by the identifiers
\* of the attribute list that S lacks, each once, in order of first occurrence;
\* an ADD of identifiers that are all present leaves the set as it was.
C3_AddAppendsNew ==
    Processed("ADD") =>
        /\ value = before \o Pick(last.msg.attribute, FirstNew(before, last.msg.attribute))
        /\ Range(last.msg.attribute) \subseteq Range(before) => value = before

\* ADD [c, a, c] was processed on [b, a]: one identifier is present, one is
\* new and repeated.
C3_Witness ==
    /\ Processed("ADD")
    /\ before = <<"b", "a">>
    /\ last.msg.attribute = <<"c", "a", "c">>

\* C4: processing an inbound REMOVE on set S yields S without the identifiers
\* the attribute list names, the others in their original order; absent and
\* repeated identifiers are ignored, and a REMOVE naming only absent
\* identifiers leaves the set as it was.
C4_RemoveDeletesNamed ==
    Processed("REMOVE") =>
        /\ value = Pick(before, {i \in 1..Len(before) :
                                    before[i] \notin Range(last.msg.attribute)})
        /\ Range(last.msg.attribute) \cap Range(before) = {} => value = before

\* REMOVE [d, b, b] was processed on [a, b, c]: d is absent, b is repeated,
\* and two identifiers stay.
C4_Witness ==
    /\ Processed("REMOVE")
    /\ before = <<"a", "b", "c">>
    /\ last.msg.attribute = <<"d", "b", "b">>
    /\ Len(value) = 2

\* C5: after the error callback or the close callback of a channel has run,
\* the published set is empty, whatever it held before.
C5_EmptyAfterErrorOrClose ==
    last.op \in {"error", "complete"} => value = <<>> /\ ops[Len(ops)] = Publish(<<>>)

\* The error callback has run on a set that held both identifiers.
C5_Witness ==
    /\ last.op = "error"
    /\ Range(before) = Ids

\* C6: connect() with no configuration observed returns false and changes
\* nothing: no channel is created, available() stays false, the set is neither
\* changed nor republished.
C6_ConnectWithoutConfig ==
    [][(last'.op = "connect" /\ _config = NoConfig) =>
         /\ last'.ret = "false"
         /\ UNCHANGED <<_config, _webSocket, value, chan>>
         /\ availableCall(_webSocket') = "false"
         /\ ops' = <<>>]_vars

\* connect() was called before any configuration and returned false.
C6_Witness ==
    /\ last.op = "connect"
    /\ _config = NoConfig
    /\ last.ret = "false"

\* A turn in which connect() ran and returned true: an external call, or the
\* call made for a configuration snapshot that carries an address.
Connected ==
    \/ last.op = "connect" /\ last.ret = "true"
    \/ last.op = "config" /\ last.id # <<NullAddr>>

\* C7: every connect() that returns true leaves the published set empty when
\* it returns; if a channel existed, it closes that channel, then publishes
\* the empty set, then opens the new channel and registers its callbacks.
C7_ConnectResetsInOrder ==
    [][Connected' =>
         /\ value' = <<>>
         /\ _webSocket' # NoSocket /\ _webSocket' # _webSocket
         /\ _webSocket # NoSocket =>
              ops' = <<Complete(_webSocket), Publish(<<>>),
                       Open(_webSocket', _config'), Subscribe(_webSocket')>>]_vars

\* connect() returned true while a channel existed and the set was not empty.
C7_Witness ==
    /\ last.op = "connect"
    /\ last.ret = "true"
    /\ _webSocket = 2
    /\ before # <<>>

Mutations == {"add", "remove", "clear"}
ActionOf(op) == CASE op = "add" -> "ADD" [] op = "remove" -> "REMOVE" [] op = "clear" -> "CLEAR"
Sends(calls) == {i \in 1..Len(calls) : calls[i].call = "send"}

\* C8: add, remove and clear called while no channel object exists send no
\* message, raise no error (the only call made is the console.log) and leave
\* the connection state and the published set as they were.
C8_DroppedWithoutChannel ==
    [][(last'.op \in Mutations /\ _webSocket = NoSocket) =>
         /\ Sends(ops') = {}
         /\ ops' = <<Unavailable>>
         /\ UNCHANGED <<_config, _webSocket, value, chan>>]_vars

\* remove(ids) with a non-empty list was called before any channel existed.
C8_Witness ==
    /\ last.op = "remove"
    /\ last.id # <<>>
    /\ _webSocket = NoSocket

\* C9: while a channel exists, each add(ids), remove(ids) or clear() puts
\* exactly one message on the current channel, with action ADD, REMOVE or
\* CLEAR, key "vitrivr" and attribute ids ([] for clear), and nothing on any
\* other channel.
C9_OneMessageOnCurrentChannel ==
    [][(last'.op \in Mutations /\ _webSocket # NoSocket) =>
         /\ ops' = <<Send(_webSocket, Message(ActionOf(last'.op), "vitrivr", last'.id))>>
         /\ last'.op = "clear" => last'.id = <<>>
         /\ \A i \in 1..Len(ops') : ops'[i].ch = _webSocket']_vars

\* remove(b, a) was called on channel 2 while the superseded channel 1 could
\* still deliver.
C9_Witness ==
    /\ last.op = "remove"
    /\ last.id = <<"b", "a">>
    /\ _webSocket = 2
    /\ chan[1] = "closing"

\* The error or the close callback of the current channel has run, and
\* connect() has not returned true since.
Disconnected == _webSocket # NoSocket /\ chan[_webSocket] = "stopped"

\* C10: after a channel error or close event, until the next connect() that
\* returns true, add, remove and clear are no-ops that send no message.
C10_NoSendWhileDisconnected ==
    [][(Disconnected /\ last'.op \in Mutations) => Sends(ops') = {}]_vars

C12_ClearEmpties ==
    Processed("CLEAR") => value = <<>> /\ ops = <<Publish(<<>>)>>

\* CLEAR with a non-empty attribute list naming one of three held identifiers
\* was processed.
C12_Witness ==
    /\ Processed("CLEAR")
    /\ Len(before) = 3
    /\ Len(last.msg.attribute) = 1
    /\ Range(last.msg.attribute) \subseteq Range(before)

\* A callback of a channel that connect() has replaced.
Superseded(turn) == turn.op \in {"message", "error", "complete"} /\ turn.ch # _webSocket

\* C13: once connect() has replaced a channel, no event of the superseded
\* channel (a message in flight, its error, its close notification) changes
\* the published set.
C13_SupersededChannelIsMute ==
    [][Superseded(last') => value' = value]_vars

Opens(calls) == {i \in 1..Len(calls) : calls[i].call = "webSocket"}

\* C14: until the configuration stream has delivered a snapshot with an
\* address, the synchronizer is inert: no channel exists, available() is
\* false, the published set is empty and no message is sent.
C14_InertWithoutAddress ==
    _config \notin Addrs =>
        /\ _webSocket = NoSocket
        /\ \A ch \in Channels : chan[ch] = "unused"
        /\ availableCall(_webSocket) = "false"
        /\ last.op = "available" => last.ret = "false"
        /\ value = <<>>
        /\ Sends(ops) = {} /\ Opens(ops) = {}

\* Only a snapshot without an address has been delivered so far.
C14_Witness ==
    /\ last.op = "config"
    /\ last.id = <<NullAddr>>
    /\ _config = NoConfig

\* C15: every configuration snapshot with an address stores that snapshot and
\* triggers exactly one connect(), so a re-emission while a channel exists
\* closes it and resets the published set; a snapshot without an address
\* changes nothing.
C15_SnapshotStoresAndConnects ==
    [][last'.op = "config" =>
         IF last'.id = <<NullAddr>>
         THEN UNCHANGED <<_config, _webSocket, value, chan>> /\ ops' = <<>>
         ELSE /\ <<_config'>> = last'.id
              /\ Cardinality(Opens(ops')) = 1
              /\ \A i \in Opens(ops') : ops'[i] = Open(_webSocket', last'.id[1])
              /\ _webSocket' # _webSocket /\ chan'[_webSocket'] = "live"
              /\ _webSocket # NoSocket =>
                   /\ ops'[1] = Complete(_webSocket)
                   /\ ops'[2] = Publish(<<>>)
                   /\ chan'[_webSocket] # "live"
                   /\ value' = <<>>]_vars

\* A snapshot with another address arrived while channel 1 existed and the set
\* was not empty.
C15_Witness ==
    /\ last.op = "config"
    /\ _config = "ws://other/collab"
    /\ _webSocket = 2
    /\ Opens(ops) = {3}
    /\ before # <<>>

\* C16: the synchronizer never reconnects on its own: a channel is opened only
\* in a turn that is a configuration snapshot with an address or an external
\* call of connect(), never in an error or close callback.
C16_NoAutomaticReconnect ==
    [][/\ (Opens(ops') # {} \/ _webSocket' # _webSocket) => Connected'
       /\ \A ch \in Channels :
            (chan[ch] # "live" /\ chan'[ch] = "live") => Connected'
       /\ last'.op \in {"error", "complete"} =>
            /\ _webSocket' = _webSocket
            /\ chan'[last'.ch] = "stopped"]_vars

\* The current channel reported an error and stays the current channel.
C16_Witness ==
    /\ last.op = "error"
    /\ last.ch = _webSocket
    /\ Disconnected

\* C18: an inbound message whose action is none of ADD, REMOVE, CLEAR leaves
\* the published set with the same contents in the same order; nothing else
\* happens: the set is republished, no error path runs and the connection
\* state stays as it was.
C18_UnknownActionIsNoOp ==
    [][(last'.op = "message" /\ last'.msg.action \notin {"ADD", "REMOVE", "CLEAR"}) =>
         /\ value' = value
         /\ ops' = <<Publish(value)>>
         /\ UNCHANGED <<_config, _webSocket, chan>>]_vars

\* A message with an unknown action and a non-empty attribute list was
\* processed on a set of three identifiers.
C18_Witness ==
    /\ last.op = "message"
    /\ last.msg.action = "PING"
    /\ last.msg.attribute # <<>>
    /\ Range(last.msg.attribute) \subseteq Range(before)
    /\ Len(before) = 3

Publishes(calls) == {i \in 1..Len(calls) : calls[i].call = "publish"}

\* C19: a set value once published is never modified afterwards: every
\* message processed by synchronize and every reset publishes a new array, so
\* the array an observer took earlier keeps its contents through all later
\* messages, errors, closes and reconnects.
C19_PublishedValueIsNeverWritten ==
    [][/\ last'.op # "observe" => snapshot'.array = snapshot.array
       /\ Publishes(ops') # {} => ~snapshot'.isValue
       /\ snapshot'.isValue => snapshot'.array = value']_vars

\* The observer took [a, b] when it was the current value; a message was then
\* processed that changed the set, and the observer's array still reads [a, b].
C19_Witness ==
    /\ last.op = "message"
    /\ before = <<"a", "b">>
    /\ snapshot = Held(<<"a", "b">>, FALSE)
    /\ value # before

\* C20: the effect of an inbound message on the published set does not depend
\* on its key: two runs that receive the same actions and attribute lists with
\* different keys publish the same sets.
C20_KeyIndependent == twin.value = value

\* The runs received an ADD with different keys and it changed the set.
C20_Witness ==
    /\ Processed("ADD")
    /\ last.msg.key = "other"
    /\ twin.key = VITRIVR
    /\ value # before
    /\ Len(value) = 2

\* add(ids) was called with identifier x while a channel object existed.
AddCalled(x) == last.op = "add" /\ x \in Range(last.id) /\ _webSocket # NoSocket

\* An error, a close, a reconnect, or a processed REMOVE or CLEAR.
Disturbed ==
    \/ last.op \in {"error", "complete"}
    \/ Connected
    \/ Processed("REMOVE") \/ Processed("CLEAR")

\* C17: if add(ids) is called while a channel exists, the endpoint echoes what
\* it receives, delivery is fair and no error, close, reconnect, REMOVE or
\* CLEAR follows, then eventually every identifier of ids is in the published
\* set; right after add() returns it is in the set only if it was before.
C17_AddConverges ==
    /\ [](last.op = "add" =>
            \A x \in Range(last.id) : x \in Range(value) => x \in Range(before))
    /\ \A x \in Ids : AddCalled(x) ~> (x \in Range(value) \/ Disturbed)

\* The same with add(ids) called on a channel that has not failed or closed.
AddCalledLive(x) == AddCalled(x) /\ chan[_webSocket] = "live"

AddConvergesOnLiveChannel ==
    \A x \in Ids : AddCalledLive(x) ~> (x \in Range(value) \/ Disturbed)

=============================================================================
